---- MODULE Spec2Model ----
(***************************************************************************)
(* Position / cost-basis accounting and order-proposal logic of the        *)
(* scalping-with-DCA scripts:                                              *)
(*   scripts/smart_scalping_dca.py          (SmartScalpingDCA)             *)
(*   scripts/atom_usd_scalp_dca_strategy.py (AtomUsdScalpDCAStrategy)      *)
(*                                                                         *)
(* Numbers.  Prices and amounts are integers (price ticks, base-asset      *)
(* units).  A Decimal quotient is kept exactly as a reduced fraction       *)
(* <<numerator, denominator>>.  A Python float is a point of a grid: the   *)
(* conversion float(Decimal) rounds to the nearest grid point (ties to     *)
(* even), the grid being one price tick instead of 2^-52 relative; a       *)
(* comparison of two floats against a threshold is evaluated on the exact  *)
(* values, their rounding error being far below every threshold used.      *)
(* Rates (profitability, fees, distances) are in units of 1/RateScale.     *)
(***************************************************************************)
EXTENDS Integers, Sequences, FiniteSets, TLC

\* ---------------------------------------------------------------- bounds
MaxAmount == 3            \* largest amount of one position in the harness
MaxLen == 2               \* longest position list in the harness
MaxFills == 3             \* fill events in one SmartScalpingDCA run
AtomMaxFills == 2         \* fill events in one AtomUsdScalpDCAStrategy run
MaxHistory == 1           \* trade-history entries drawn in the harness
MaxTime == 5              \* the clock SmartScalpingDCA reads stops here
MaxOrders == 2            \* orders that can be active at once

\* ------------------------------------------- configuration and constants
RateScale == 10000
order_amount == 3         \* SmartScalpingDCAConfig.order_amount: the default 15, amounts being
                          \* counted in lots of 5
min_profitability == 50   \* SmartScalpingDCAConfig.min_profitability (configured 0.005; default 0.002)
max_positions == 3        \* SmartScalpingDCAConfig.max_positions (configured; default 5)
order_refresh_time == 2   \* SmartScalpingDCAConfig.order_refresh_time (configured; default 15)
position_distance == 20   \* SmartScalpingDCAConfig.position_distance
maker_fee == 6            \* self.maker_fee = Decimal("0.0006")
taker_fee == 120          \* self.taker_fee = Decimal("0.0120")

\* AtomUsdScalpDCAStrategy class attributes; prices are in cents, so that
\* 0.01 USD is one price tick
max_order_amount_usd == 200   \* 35.0 USD in the script; 2.00 USD here, an order of two units
atom_min_profitability == 50
atom_max_positions == 5
dca_step_size == 200

\* TechnicalMarketMakingConfig
tmm_order_amount == 4          \* order_amount: the default 20, in lots of 5
base_bid_spread == 80          \* 0.008
base_ask_spread == 80          \* 0.008
tmm_order_refresh_time == 2    \* order_refresh_time (configured; default 30)
bb_length == 2                 \* bb_length (configured; default 20)
price_data_length == 2         \* price_data_length (configured; default 100)

\* the market prices the connector reports and fills market orders at
Prices == {97, 100}

BUY == "BUY"
SELL == "SELL"
None == <<>>

\* ------------------------------------------------------------ arithmetic
Min(a, b) == IF a <= b THEN a ELSE b

Abs(a) == IF a < 0 THEN -a ELSE a

RECURSIVE Gcd(_, _)
Gcd(a, b) == IF b = 0 THEN a ELSE Gcd(b, a % b)

\* the Decimal quotient n / d (d > 0), exact
Frac(n, d) == LET g == Gcd(Abs(n), d) IN <<n \div g, d \div g>>

FracLT(a, b) == a[1] * b[2] < b[1] * a[2]

FracAdd(a, b) == Frac(a[1] * b[2] + b[1] * a[2], a[2] * b[2])

\* a * (RateScale + r) / RateScale
FracTimesRate(a, r) == Frac(a[1] * (RateScale + r), a[2] * RateScale)

RECURSIVE SumAmount(_)
SumAmount(pos) ==
  IF pos = <<>> THEN 0 ELSE pos[1][2] + SumAmount(Tail(pos))

RECURSIVE SumValue(_)
SumValue(pos) ==
  IF pos = <<>> THEN 0 ELSE pos[1][1] * pos[1][2] + SumValue(Tail(pos))

\* ------------------------------------------- SmartScalpingDCA: cost basis
RECURSIVE PositionsWalk_any_entry(_, _, _, _)
PositionsWalk_any_entry(pos, i, remaining_units, acc) ==
  IF i = 0 \/ remaining_units <= 0 THEN acc
  ELSE PositionsWalk_any_entry(pos, i - 1, remaining_units - 1,
                               <<acc[1] + order_amount,
                                 acc[2] + order_amount * pos[i][1]>>)

\* the loop over reversed(self.positions): index i runs from the newest
\* entry down; acc = <<considered_amount, considered_value>>
RECURSIVE PositionsWalk(_, _, _, _)
PositionsWalk(pos, i, remaining_units, acc) ==
  IF i = 0 \/ remaining_units <= 0 THEN acc
  ELSE LET price == pos[i][1]
           amount == pos[i][2]
           position_units == amount \div order_amount
           units_to_take == Min(position_units, remaining_units)
           amount_to_take == units_to_take * order_amount
       IN IF units_to_take > 0
          THEN PositionsWalk(pos, i - 1, remaining_units - units_to_take,
                             <<acc[1] + amount_to_take,
                               acc[2] + amount_to_take * price>>)
          ELSE PositionsWalk(pos, i - 1, remaining_units, acc)

\* the loop over reversed(trades): acc = <<buy_amount, buy_value>>, buy_value
\* a fraction because a trade's price is one
RECURSIVE TradesWalk(_, _, _, _)
TradesWalk(tr, i, num_units, acc) ==
  IF i = 0 THEN acc
  ELSE LET trade == tr[i]
           buy_amount == acc[1]
           current_total == buy_amount + trade.amount
           current_units == current_total \div order_amount
           previous_units == buy_amount \div order_amount
           usable_amount == Min(current_units * order_amount - buy_amount,
                                trade.amount)
           next == <<buy_amount + usable_amount,
                     FracAdd(acc[2], Frac(usable_amount * trade.price[1],
                                          trade.price[2]))>>
       IN IF trade.trade_type = BUY /\ current_units > previous_units
          THEN IF next[1] >= num_units * order_amount
               THEN next
               ELSE TradesWalk(tr, i - 1, num_units, next)
          ELSE TradesWalk(tr, i - 1, num_units, acc)

cost_basis_from_trades_never(tr, num_units) == None

\* the cost basis from recent trades, tried when no position holds a whole unit
cost_basis_from_trades(tr, num_units) ==
  LET bought == TradesWalk(tr, Len(tr), num_units, <<0, <<0, 1>>>>)
  IN IF bought[1] >= order_amount
     THEN Frac(bought[2][1], bought[2][2] * bought[1])
     ELSE None

calculate_cost_basis_newest_only(pos, tr) ==
  IF pos = <<>> THEN None ELSE <<pos[Len(pos)][1], 1>>

calculate_cost_basis_trades_when_empty(pos, tr) ==
  IF pos = <<>> THEN cost_basis_from_trades(tr, 1)
  ELSE IF SumAmount(pos) \div order_amount = 0 THEN None
  ELSE Frac(SumValue(pos), SumAmount(pos))

calculate_cost_basis(pos, tr) ==
  IF pos = <<>> THEN None
  ELSE LET total_amount == SumAmount(pos)
           num_units == total_amount \div order_amount
           considered == PositionsWalk(pos, Len(pos), num_units, <<0, 0>>)
       IN IF num_units = 0 THEN None
          ELSE IF considered[1] > 0 THEN Frac(considered[2], considered[1])
          ELSE cost_basis_from_trades(tr, num_units)

\* float(Decimal): the nearest grid point, ties to even
ToFloat(a) ==
  LET q == a[1] \div a[2]
      r == a[1] % a[2]
  IN IF 2 * r < a[2] THEN q
     ELSE IF 2 * r > a[2] THEN q + 1
     ELSE IF q % 2 = 0 THEN q ELSE q + 1

\* abs(a - b) / b > rate, for a, b > 0
RelDiffGT(a, b, rate) ==
  Abs(a[1] * b[2] - b[1] * a[2]) * RateScale > rate * b[1] * a[2]

\* abs(a - b) / b < rate, for a, b > 0
RelDiffLT(a, b, rate) ==
  Abs(a[1] * b[2] - b[1] * a[2]) * RateScale < rate * b[1] * a[2]

\* ------------------------------------------------------------------ state
VARIABLES
  script,                 \* which script the host runs
  positions,              \* SmartScalpingDCA.positions, oldest first
  create_timestamp,       \* SmartScalpingDCA.create_timestamp
  ready,                  \* AtomUsdScalpDCAStrategy.ready
  dca_positions,          \* AtomUsdScalpDCAStrategy.dca_positions, in insertion
                          \* order: <<entry price (float), amount>>
  total_position_value,   \* AtomUsdScalpDCAStrategy.total_position_value
  total_position_amount,  \* AtomUsdScalpDCAStrategy.total_position_amount
  active_buy_orders,      \* AtomUsdScalpDCAStrategy.active_buy_orders
  active_sell_orders,     \* AtomUsdScalpDCAStrategy.active_sell_orders
  current_timestamp,      \* host clock, as SmartScalpingDCA.on_tick reads it
  orders,                 \* host: active orders, in placement order
  trades,                 \* host: connector.get_my_trades(), oldest first, as
                          \* SmartScalpingDCA reads it
  fills,                  \* host: number of fill events so far
  mid_price,              \* connector: mid price the last callback read
  quote_balance,          \* connector: quote balance the last callback read
  balance,                \* host: the base asset's row of get_balance_df() the
                          \* last callback read
  proposal,               \* candidates create_proposal returned in the last callback
  placed,                 \* candidates the last callback handed to buy / sell
  calculated_cost_basis,  \* cost basis the last callback calculated, or None
  event,                  \* the last callback and its OrderFilledEvent
  price_data,             \* TechnicalMarketMaking.price_data, oldest first
  ready_to_trade,         \* TechnicalMarketMaking.ready_to_trade
  last_timestamp          \* TechnicalMarketMaking.last_timestamp

vars == <<script, positions, create_timestamp, ready, dca_positions,
          total_position_value, total_position_amount, active_buy_orders,
          active_sell_orders, current_timestamp, orders, trades, fills,
          mid_price, quote_balance, balance, proposal, placed,
          calculated_cost_basis, event, price_data, ready_to_trade,
          last_timestamp>>

smart_vars == <<positions, create_timestamp>>

atom_vars == <<ready, dca_positions, total_position_value, total_position_amount,
               active_buy_orders, active_sell_orders>>

tmm_vars == <<price_data, ready_to_trade, last_timestamp>>

SMART == "smart_scalping_dca"
ATOM == "atom_usd_scalp_dca_strategy"
TMM == "technical_market_making"

NoBalance == [has_row |-> FALSE, available |-> 0]

\* the base-asset row of get_balance_df(): absent, or its available balance
BalanceRows ==
  {NoBalance} \cup {[has_row |-> TRUE, available |-> b] : b \in 0..order_amount}

\* available quote / USD balance: nothing, or enough for any order
QuoteBalances == {0, 100 * order_amount}

NoEvent == [op |-> "init", trade_type |-> BUY, price |-> <<0, 1>>, amount |-> 0,
            trade_fee |-> 0, order_id |-> 0]

TickEvent == [NoEvent EXCEPT !.op = "on_tick"]

\* ------------------------------------------------ SmartScalpingDCA: logic
has_active_sell_orders_never(active_orders) == FALSE

has_active_sell_orders(active_orders) ==
  \E i \in 1..Len(active_orders) : ~active_orders[i].is_buy

SellCandidate(amount, price) ==
  [order_side |-> SELL, order_type |-> "LIMIT", amount |-> amount, price |-> price]

BuyCandidate(amount, price) ==
  [order_side |-> BUY, order_type |-> "MARKET", amount |-> amount, price |-> price]

min_profitable_price_without_fees(cost_basis) ==
  FracTimesRate(cost_basis, min_profitability)

min_profitable_price(cost_basis) ==
  FracTimesRate(cost_basis, min_profitability + maker_fee + taker_fee)

create_proposal_buys_without_basis(pos, tr, current_price, quote) ==
  LET cost_basis == calculate_cost_basis(pos, tr)
      sellable_amount == (SumAmount(pos) \div order_amount) * order_amount
  IN IF cost_basis # None /\ pos # <<>>
     THEN IF sellable_amount > 0
          THEN <<SellCandidate(sellable_amount, min_profitable_price(cost_basis))>>
          ELSE <<>>
     ELSE IF quote >= order_amount * current_price
          THEN <<BuyCandidate(order_amount, <<current_price, 1>>)>>
          ELSE <<>>

create_proposal_without_balance_check(pos, tr, current_price, quote) ==
  LET cost_basis == calculate_cost_basis(pos, tr)
      sellable_amount == (SumAmount(pos) \div order_amount) * order_amount
  IN IF cost_basis # None /\ pos # <<>>
     THEN IF sellable_amount > 0
          THEN <<SellCandidate(sellable_amount, min_profitable_price(cost_basis))>>
          ELSE <<>>
     ELSE IF Len(pos) = 0
          THEN <<BuyCandidate(order_amount, <<current_price, 1>>)>>
          ELSE <<>>

create_proposal_sells_total(pos, tr, current_price, quote) ==
  LET cost_basis == calculate_cost_basis(pos, tr)
  IN IF cost_basis # None /\ pos # <<>>
     THEN IF SumAmount(pos) > 0
          THEN <<SellCandidate(SumAmount(pos), min_profitable_price(cost_basis))>>
          ELSE <<>>
     ELSE IF Len(pos) = 0 /\ quote >= order_amount * current_price
          THEN <<BuyCandidate(order_amount, <<current_price, 1>>)>>
          ELSE <<>>

create_proposal(pos, tr, current_price, quote) ==
  LET cost_basis == calculate_cost_basis(pos, tr)
      total_amount == SumAmount(pos)
      num_units == total_amount \div order_amount
      sellable_amount == num_units * order_amount
      required_quote == order_amount * current_price
  IN IF cost_basis # None /\ pos # <<>>
     THEN IF sellable_amount > 0
          THEN <<SellCandidate(sellable_amount, min_profitable_price(cost_basis))>>
          ELSE <<>>
     ELSE IF Len(pos) = 0 /\ quote >= required_quote
          THEN <<BuyCandidate(order_amount, <<current_price, 1>>)>>
          ELSE <<>>

should_dca_down_at_any_price(pos, tr, current_price, quote) ==
  /\ pos # <<>>
  /\ calculate_cost_basis(pos, tr) # None
  /\ quote >= order_amount * current_price

should_dca_down_without_balance_check(pos, tr, current_price, quote) ==
  LET cost_basis == calculate_cost_basis(pos, tr)
  IN /\ pos # <<>>
     /\ cost_basis # None
     /\ cost_basis[1] # 0
     /\ (cost_basis[1] - current_price * cost_basis[2]) * RateScale
          >= position_distance * cost_basis[1]

should_dca_down(pos, tr, current_price, quote) ==
  LET cost_basis == calculate_cost_basis(pos, tr)
      required_quote == order_amount * current_price
  IN /\ pos # <<>>
     /\ cost_basis # None
     /\ cost_basis[1] # 0
     \* price_drop = (cost_basis - current_price) / cost_basis
     /\ (cost_basis[1] - current_price * cost_basis[2]) * RateScale
          >= position_distance * cost_basis[1]
     /\ quote >= required_quote

create_dca_order_as_limit_sell(pos, tr, current_price, quote) ==
  IF ~should_dca_down(pos, tr, current_price, quote) THEN None
  ELSE SellCandidate(order_amount, <<current_price, 1>>)

create_dca_order(pos, tr, current_price, quote) ==
  IF ~should_dca_down(pos, tr, current_price, quote) THEN None
  ELSE BuyCandidate(order_amount, <<current_price, 1>>)

update_positions_from_balance_whole_balance(pos, active_orders, bal, current_price) ==
  IF ~bal.has_row THEN <<>>
  ELSE IF has_active_sell_orders(active_orders) THEN pos
  ELSE IF bal.available = 0 THEN <<>>
  ELSE IF pos = <<>> /\ bal.available > 0
       THEN <<<<current_price, bal.available>>>>
       ELSE pos

update_positions_from_balance(pos, active_orders, bal, current_price) ==
  LET usable_balance == (bal.available \div order_amount) * order_amount
  IN IF ~bal.has_row THEN <<>>
     ELSE IF has_active_sell_orders(active_orders) THEN pos
     ELSE IF bal.available = 0 THEN <<>>
     ELSE IF pos = <<>> /\ bal.available > 0 /\ usable_balance > 0
          THEN <<<<current_price, usable_balance>>>>
          ELSE pos

\* deque(maxlen = max_positions).append
DequeAppend_unbounded(pos, entry) == Append(pos, entry)

DequeAppend_evicts_newest(pos, entry) ==
  IF Len(pos) >= max_positions
  THEN Append(SubSeq(pos, 1, max_positions - 1), entry)
  ELSE Append(pos, entry)

DequeAppend(pos, entry) ==
  IF Len(pos) >= max_positions
  THEN Append(SubSeq(pos, Len(pos) - max_positions + 2, Len(pos)), entry)
  ELSE Append(pos, entry)

positions_after_fill_partial_exit(pos, ev) ==
  IF ev.trade_type = BUY
  THEN DequeAppend(pos, <<ev.price[1], ev.amount>>)
  ELSE IF ev.amount >= SumAmount(pos) THEN <<>> ELSE pos

positions_after_fill_fee_in_price(pos, ev) ==
  IF ev.trade_type = BUY
  THEN DequeAppend(pos, <<(ev.price[1] * (RateScale + ev.trade_fee)) \div
                            (ev.price[2] * RateScale) + 1, ev.amount>>)
  ELSE <<>>

\* did_fill_order: what it does to self.positions
positions_after_fill(pos, ev) ==
  IF ev.trade_type = BUY
  THEN DequeAppend(pos, <<ev.price[1], ev.amount>>)
  ELSE <<>>

\* ------------------------------------------------------------- host side
\* budget_checker.adjust_candidates(proposal, all_or_none=True): a candidate
\* comes back unchanged, or with amount 0 when the balance does not cover it
adjust_proposal_to_budget(prop) ==
  {prop} \cup {[i \in 1..Len(prop) |-> [prop[i] EXCEPT !.amount = 0]]}

\* a fresh client order id: the smallest one no active or tracked order has
NewOrderId(active_orders, tracked) ==
  LET used == {active_orders[i].client_order_id : i \in 1..Len(active_orders)}
                \cup {tracked[i].client_order_id : i \in 1..Len(tracked)}
  IN CHOOSE n \in 1..(Len(active_orders) + Len(tracked) + 1) :
       n \notin used /\ \A m \in 1..(n - 1) : m \in used

OrderOf(c, id) ==
  [client_order_id |-> id, is_buy |-> c.order_side = BUY,
   order_type |-> c.order_type, price |-> c.price, quantity |-> c.amount,
   cancel_requested |-> FALSE]

\* the exchange takes a candidate with a positive amount while fewer than
\* MaxOrders orders are open, and rejects it otherwise
Accepted(active_orders, c) == c.amount > 0 /\ Len(active_orders) < MaxOrders

\* self.buy / self.sell for each candidate in turn
RECURSIVE Submit(_, _, _)
Submit(active_orders, tracked, cands) ==
  IF cands = <<>> THEN active_orders
  ELSE Submit(IF Accepted(active_orders, cands[1])
              THEN Append(active_orders,
                          OrderOf(cands[1], NewOrderId(active_orders, tracked)))
              ELSE active_orders,
              tracked, Tail(cands))

CancelBuys_none(active_orders) == active_orders

\* self.cancel for every active buy order
CancelBuys(active_orders) ==
  [i \in 1..Len(active_orders) |->
     IF active_orders[i].is_buy
     THEN [active_orders[i] EXCEPT !.cancel_requested = TRUE]
     ELSE active_orders[i]]

RemoveAt(s, i) == SubSeq(s, 1, i - 1) \o SubSeq(s, i + 1, Len(s))

\* the order book after `amount` of order i was filled
AfterFill(active_orders, i, amount) ==
  IF amount = active_orders[i].quantity THEN RemoveAt(active_orders, i)
  ELSE [active_orders EXCEPT ![i].quantity = @ - amount]

FeeOf(order) == IF order.order_type = "MARKET" THEN taker_fee ELSE maker_fee

\* prices at which the exchange can fill the order: a market order at any
\* market price, a limit buy at its limit price, a limit sell at its limit
\* price or, when the market stands above it, at the market price
FillPrices(order) ==
  IF order.order_type = "MARKET" THEN {<<p, 1>> : p \in Prices}
  ELSE IF order.is_buy THEN {order.price}
  ELSE {order.price} \cup {<<p, 1>> : p \in {x \in Prices : FracLT(order.price, <<x, 1>>)}}

FillEvent(order, price, amount) ==
  [op |-> "did_fill_order", trade_type |-> IF order.is_buy THEN BUY ELSE SELL,
   price |-> price, amount |-> amount, trade_fee |-> FeeOf(order),
   order_id |-> order.client_order_id]

TradeOf(ev) == [trade_type |-> ev.trade_type, price |-> ev.price, amount |-> ev.amount]

\* a callback that queries no price or balance and places no order
NothingRead ==
  /\ mid_price' = 0
  /\ quote_balance' = 0
  /\ balance' = NoBalance
  /\ proposal' = <<>>
  /\ placed' = <<>>
  /\ calculated_cost_basis' = None

\* --------------------------------------------- SmartScalpingDCA: actions
Smart_on_tick ==
  /\ script = SMART
  /\ current_timestamp < MaxTime
  /\ current_timestamp' = current_timestamp + 1
  /\ event' = TickEvent
  /\ UNCHANGED <<script, trades, fills>>
  /\ UNCHANGED atom_vars
  /\ UNCHANGED tmm_vars
  /\ IF create_timestamp <= current_timestamp'
     THEN \E mid \in Prices, quote \in QuoteBalances :
       /\ mid_price' = mid
       /\ quote_balance' = quote
       /\ create_timestamp' = order_refresh_time + current_timestamp'
       /\ IF has_active_sell_orders(orders)
          THEN LET dca_order == create_dca_order(positions, trades, mid, quote)
               IN /\ calculated_cost_basis' = calculate_cost_basis(positions, trades)
                  /\ placed' = IF dca_order # None THEN <<dca_order>> ELSE <<>>
                  /\ orders' = Submit(orders, <<>>, placed')
                  /\ proposal' = <<>>
                  /\ balance' = NoBalance
                  /\ UNCHANGED positions
          ELSE \E bal \in BalanceRows :
               /\ balance' = bal
               /\ positions' = update_positions_from_balance(positions, orders, bal, mid)
               /\ calculated_cost_basis' = calculate_cost_basis(positions', trades)
               /\ proposal' = create_proposal(positions', trades, mid, quote)
               /\ \E proposal_adjusted \in adjust_proposal_to_budget(proposal') :
                    /\ placed' = proposal_adjusted
                    /\ orders' = Submit(CancelBuys(orders), <<>>, proposal_adjusted)
     ELSE /\ NothingRead
          /\ UNCHANGED <<positions, create_timestamp, orders>>

Smart_did_fill_order ==
  /\ script = SMART
  /\ fills < MaxFills
  /\ \E i \in 1..Len(orders) : \E amount \in 1..orders[i].quantity :
     \E price \in FillPrices(orders[i]) :
       /\ event' = FillEvent(orders[i], price, amount)
       /\ positions' = positions_after_fill(positions, event')
       /\ orders' = AfterFill(orders, i, amount)
       /\ trades' = Append(trades, TradeOf(event'))
       /\ fills' = fills + 1
  /\ NothingRead
  /\ UNCHANGED <<script, create_timestamp, current_timestamp>>
  /\ UNCHANGED atom_vars
  /\ UNCHANGED tmm_vars

\* the exchange confirms the cancellations requested so far
Host_cancelled ==
  /\ \E i \in 1..Len(orders) : orders[i].cancel_requested
  /\ orders' = SelectSeq(orders, LAMBDA o : ~o.cancel_requested)
  /\ event' = [NoEvent EXCEPT !.op = "cancelled"]
  /\ NothingRead
  /\ UNCHANGED <<script, current_timestamp, trades, fills>>
  /\ UNCHANGED smart_vars
  /\ UNCHANGED atom_vars
  /\ UNCHANGED tmm_vars

\* ----------------------------------------- AtomUsdScalpDCAStrategy: logic
LimitCandidate(side, amount, price) ==
  [order_side |-> side, order_type |-> "LIMIT", amount |-> amount, price |-> price]

\* self.cancel_all(exchange, trading_pair): every active order is asked to cancel
CancelAll(active_orders) ==
  [i \in 1..Len(active_orders) |-> [active_orders[i] EXCEPT !.cancel_requested = TRUE]]

\* self.cancel(..., order.client_order_id)
CancelIds(active_orders, ids) ==
  [i \in 1..Len(active_orders) |->
     IF active_orders[i].client_order_id \in ids
     THEN [active_orders[i] EXCEPT !.cancel_requested = TRUE]
     ELSE active_orders[i]]

\* place_sell_order / place_buy_order: st = [orders, tracked, other, placed];
\* the order is tracked only when the host returned one
PlaceAndTrack(st, c) ==
  LET id == NewOrderId(st.orders, st.tracked \o st.other)
      order == OrderOf(c, id)
  IN IF Accepted(st.orders, c)
     THEN [st EXCEPT !.orders = Append(@, order),
                     !.tracked = Append(@, [client_order_id |-> id, price |-> c.price]),
                     !.placed = Append(@, c)]
     ELSE [st EXCEPT !.placed = Append(@, c)]

target_sell_price(entry_price) ==
  FracTimesRate(<<entry_price, 1>>, atom_min_profitability)

\* abs(float(order.price) - float(target_sell_price)) < 0.01
existing_sell(sells, target) ==
  \E i \in 1..Len(sells) :
    Abs(sells[i].price[1] * target[2] - target[1] * sells[i].price[2])
      < sells[i].price[2] * target[2]

\* the loop over list(self.dca_positions.items()), from entry k on
RECURSIVE ManageLoop(_, _, _)
ManageLoop(dca, k, st) ==
  IF k > Len(dca) THEN st
  ELSE LET target == target_sell_price(dca[k][1])
           amount == dca[k][2]
       IN ManageLoop(dca, k + 1,
            IF existing_sell(st.tracked, target) THEN st
            ELSE PlaceAndTrack(st, LimitCandidate(SELL, amount, target)))

manage_positions(st, dca, current_price) ==
  LET outdated == {st.tracked[i].client_order_id : i \in
                     {j \in 1..Len(st.tracked) :
                        RelDiffGT(st.tracked[j].price, <<current_price, 1>>, 200)}}
  IN ManageLoop(dca, 1, [st EXCEPT !.orders = CancelIds(@, outdated)])

RECURSIVE MaxKey(_)
MaxKey(dca) ==
  IF Len(dca) = 1 THEN dca[1][1]
  ELSE LET m == MaxKey(Tail(dca)) IN IF dca[1][1] > m THEN dca[1][1] ELSE m

buy_price_of_at_market(dca, current_price) == <<current_price, 1>>

\* the price place_orders bids
buy_price_of(dca, current_price) ==
  IF dca # <<>> /\ current_price * RateScale < MaxKey(dca) * (RateScale - dca_step_size)
  THEN Frac(MaxKey(dca) * (RateScale - dca_step_size), RateScale)
  ELSE Frac(current_price * 999, 1000)

\* max_order_amount_usd / buy_price, cut to whole lots by the exchange
quantized_amount(buy_price) == (max_order_amount_usd * buy_price[2]) \div buy_price[1]

place_orders(st, dca, current_price, available_balance) ==
  IF available_balance < max_order_amount_usd THEN st
  ELSE LET buy_price == buy_price_of(dca, current_price)
       IN PlaceAndTrack(st, LimitCandidate(BUY, quantized_amount(buy_price), buy_price))

\* self.dca_positions[key] = amount
DictSet(dca, key, amount) ==
  IF \E i \in 1..Len(dca) : dca[i][1] = key
  THEN [i \in 1..Len(dca) |-> IF dca[i][1] = key THEN <<key, amount>> ELSE dca[i]]
  ELSE Append(dca, <<key, amount>>)

RECURSIVE DictKeep(_, _)
DictKeep(dca, key) ==
  IF dca = <<>> THEN <<>>
  ELSE IF dca[1][1] = key THEN <<dca[1]>> \o DictKeep(Tail(dca), key)
  ELSE DictKeep(Tail(dca), key)

RECURSIVE DictDel(_, _)
DictDel(dca, key) ==
  IF dca = <<>> THEN <<>>
  ELSE IF dca[1][1] = key THEN DictDel(Tail(dca), key)
  ELSE <<dca[1]>> \o DictDel(Tail(dca), key)

RECURSIVE WithoutId(_, _)
WithoutId(tracked, id) ==
  IF tracked = <<>> THEN <<>>
  ELSE IF tracked[1].client_order_id = id THEN WithoutId(Tail(tracked), id)
  ELSE <<tracked[1]>> \o WithoutId(Tail(tracked), id)

buy_fill_keeps_old_entries(acc, ev) ==
  LET value == FracAdd(acc.value, Frac(ev.amount * ev.price[1], ev.price[2]))
      amount == acc.amount + ev.amount
      key == ToFloat(Frac(value[1], value[2] * amount))
  IN [value |-> value, amount |-> amount, dca |-> DictSet(acc.dca, key, amount)]

\* did_fill_order, BUY branch: acc = [value, amount, dca]
buy_fill(acc, ev) ==
  LET value == FracAdd(acc.value, Frac(ev.amount * ev.price[1], ev.price[2]))
      amount == acc.amount + ev.amount
      avg_entry_price == Frac(value[1], value[2] * amount)
      key == ToFloat(avg_entry_price)
  IN [value |-> value, amount |-> amount,
      dca |-> DictKeep(DictSet(acc.dca, key, amount), key)]

MatchingEntry_any_price(dca, k, price) == IF k > Len(dca) THEN 0 ELSE k

\* the first entry whose price lies within 2% of the fill price, 0 when none
RECURSIVE MatchingEntry(_, _, _)
MatchingEntry(dca, k, price) ==
  IF k > Len(dca) THEN 0
  ELSE IF RelDiffLT(price, <<dca[k][1], 1>>, 200) THEN k
  ELSE MatchingEntry(dca, k + 1, price)

sell_fill_full_exit(acc, ev) ==
  LET k == MatchingEntry(acc.dca, 1, ev.price)
  IN IF k = 0 THEN acc
     ELSE [value |-> <<0, 1>>, amount |-> 0, dca |-> DictDel(acc.dca, acc.dca[k][1])]

\* did_fill_order, SELL branch
sell_fill(acc, ev) ==
  LET k == MatchingEntry(acc.dca, 1, ev.price)
      key == acc.dca[k][1]
      amount == acc.amount - ev.amount
      value == FracAdd(acc.value, <<0 - ev.amount * key, 1>>)
  IN IF k = 0 THEN acc
     ELSE IF amount <= 0
     THEN [value |-> <<0, 1>>, amount |-> 0, dca |-> DictDel(acc.dca, key)]
     ELSE [value |-> value, amount |-> amount, dca |-> DictSet(acc.dca, key, amount)]

\* --------------------------------------- AtomUsdScalpDCAStrategy: actions
Atom_on_start ==
  /\ script = ATOM
  /\ ~ready
  /\ ready' = TRUE
  /\ event' = [NoEvent EXCEPT !.op = "on_start"]
  /\ NothingRead
  /\ UNCHANGED <<script, dca_positions, total_position_value, total_position_amount,
                 active_buy_orders, active_sell_orders, current_timestamp, orders,
                 trades, fills>>
  /\ UNCHANGED smart_vars
  /\ UNCHANGED tmm_vars

Atom_on_tick ==
  /\ script = ATOM
  /\ event' = TickEvent
  /\ balance' = NoBalance
  /\ proposal' = <<>>
  /\ calculated_cost_basis' = None
  /\ UNCHANGED <<script, current_timestamp, trades, fills, ready, dca_positions,
                 total_position_value, total_position_amount>>
  /\ UNCHANGED smart_vars
  /\ UNCHANGED tmm_vars
  /\ IF ~ready
     THEN /\ mid_price' = 0
          /\ quote_balance' = 0
          /\ placed' = <<>>
          /\ UNCHANGED <<orders, active_buy_orders, active_sell_orders>>
     ELSE \E mid \in Prices \cup {0} :
       /\ mid_price' = mid
       /\ IF mid = 0
          THEN /\ quote_balance' = 0
               /\ placed' = <<>>
               /\ UNCHANGED <<orders, active_buy_orders, active_sell_orders>>
          ELSE LET managed == manage_positions(
                     [orders |-> orders, tracked |-> active_sell_orders,
                      other |-> active_buy_orders, placed |-> <<>>],
                     dca_positions, mid)
               IN IF Len(dca_positions) < atom_max_positions
                  THEN \E available \in QuoteBalances :
                       LET bought == place_orders(
                             [orders |-> managed.orders, tracked |-> active_buy_orders,
                              other |-> managed.tracked, placed |-> managed.placed],
                             dca_positions, mid, available)
                       IN /\ quote_balance' = available
                          /\ orders' = bought.orders
                          /\ active_sell_orders' = managed.tracked
                          /\ active_buy_orders' = bought.tracked
                          /\ placed' = bought.placed
                  ELSE /\ quote_balance' = 0
                       /\ orders' = managed.orders
                       /\ active_sell_orders' = managed.tracked
                       /\ placed' = managed.placed
                       /\ UNCHANGED active_buy_orders

Atom_did_fill_order ==
  /\ script = ATOM
  /\ fills < AtomMaxFills
  /\ \E i \in 1..Len(orders) : \E amount \in 1..orders[i].quantity :
     \E price \in FillPrices(orders[i]) :
       LET ev == FillEvent(orders[i], price, amount)
           acc == [value |-> total_position_value, amount |-> total_position_amount,
                   dca |-> dca_positions]
           filled == IF ev.trade_type = BUY THEN buy_fill(acc, ev) ELSE sell_fill(acc, ev)
       IN /\ event' = ev
          /\ total_position_value' = filled.value
          /\ total_position_amount' = filled.amount
          /\ dca_positions' = filled.dca
          /\ fills' = fills + 1
          /\ IF ev.trade_type = BUY
             THEN /\ orders' = CancelAll(AfterFill(orders, i, amount))
                  /\ active_buy_orders' = <<>>
                  /\ active_sell_orders' = <<>>
             ELSE /\ orders' = AfterFill(orders, i, amount)
                  /\ active_sell_orders' = WithoutId(active_sell_orders, ev.order_id)
                  /\ UNCHANGED active_buy_orders
  /\ NothingRead
  /\ UNCHANGED <<script, ready, current_timestamp, trades>>
  /\ UNCHANGED smart_vars
  /\ UNCHANGED tmm_vars

\* ------------------------------------------- TechnicalMarketMaking: logic
price_data_after_drops_newest(data, current_price) ==
  LET appended == Append(data, current_price)
  IN IF Len(appended) > price_data_length
     THEN SubSeq(appended, 1, price_data_length)
     ELSE appended

\* self.price_data.append(...); pop(0) when longer than price_data_length
price_data_after(data, current_price) ==
  LET appended == Append(data, current_price)
  IN IF Len(appended) > price_data_length THEN Tail(appended) ELSE appended

\* calculate_bollinger_bands: bb_upper - bb_lower is four standard deviations
\* of the last bb_length samples, zero exactly when they are all equal
bb_range_is_zero(data) ==
  \A i \in (Len(data) - bb_length + 1)..Len(data) : data[i] = data[Len(data)]

\* spread_adjustment = abs(price_position - 0.5) * 2, as a rate: the position
\* of the price in the band is left open
SpreadAdjustments == {0, RateScale}

\* <<buy_size, sell_size>>: order_amount scaled up and down by the MACD
\* strength, which is left open; no trend, an uptrend, a downtrend
OrderSizes ==
  {<<tmm_order_amount, tmm_order_amount>>,
   <<2 * tmm_order_amount, tmm_order_amount \div 2>>,
   <<tmm_order_amount \div 2, 2 * tmm_order_amount>>}

tmm_create_proposal(ref_price, spread_adjustment, sizes) ==
  LET bid_spread == (base_bid_spread * (RateScale + spread_adjustment)) \div RateScale
      ask_spread == (base_ask_spread * (RateScale + spread_adjustment)) \div RateScale
      buy_price == Frac(ref_price * (RateScale - bid_spread), RateScale)
      sell_price == Frac(ref_price * (RateScale + ask_spread), RateScale)
  IN <<[order_side |-> BUY, order_type |-> "LIMIT", amount |-> sizes[1],
        price |-> buy_price],
       [order_side |-> SELL, order_type |-> "LIMIT", amount |-> sizes[2],
        price |-> sell_price]>>

\* the order refresh cycle of on_tick: every way it can end.  With a band of
\* width zero the division in create_proposal raises ZeroDivisionError after
\* the orders were cancelled (the host logs the error and goes on ticking);
\* a width that is zero only up to rounding lets the cycle go through.
refresh_cycle(active_orders, data, ref_price) ==
  LET cancelled == CancelAll(active_orders)
      completed ==
        {[raised |-> FALSE, proposal |-> prop, placed |-> adjusted,
          orders |-> Submit(cancelled, <<>>, adjusted)] :
           <<prop, adjusted>> \in
             UNION {{<<pr, ad>> : ad \in adjust_proposal_to_budget(pr)} :
                      pr \in {tmm_create_proposal(ref_price, a, sz) :
                                a \in SpreadAdjustments, sz \in OrderSizes}}}
      raising == {[raised |-> TRUE, proposal |-> <<>>, placed |-> <<>>,
                   orders |-> cancelled]}
  IN IF bb_range_is_zero(data) THEN raising \cup completed ELSE completed

\* ----------------------------------------- TechnicalMarketMaking: actions
Tmm_on_tick ==
  /\ script = TMM
  /\ current_timestamp < MaxTime
  /\ current_timestamp' = current_timestamp + 1
  /\ event' = TickEvent
  /\ quote_balance' = 0
  /\ balance' = NoBalance
  /\ calculated_cost_basis' = None
  /\ UNCHANGED <<script, trades, fills>>
  /\ UNCHANGED smart_vars
  /\ UNCHANGED atom_vars
  /\ \E current_price \in Prices :
       /\ mid_price' = current_price
       /\ price_data' = price_data_after(price_data, current_price)
       /\ IF Len(price_data') < price_data_length
          THEN /\ proposal' = <<>>
               /\ placed' = <<>>
               /\ UNCHANGED <<ready_to_trade, last_timestamp, orders>>
          ELSE /\ ready_to_trade' = TRUE
               /\ IF last_timestamp <= current_timestamp'
                  THEN \E cycle \in refresh_cycle(orders, price_data', current_price) :
                         /\ proposal' = cycle.proposal
                         /\ placed' = cycle.placed
                         /\ orders' = cycle.orders
                         /\ last_timestamp' =
                              IF cycle.raised THEN last_timestamp
                              ELSE current_timestamp' + tmm_order_refresh_time
                  ELSE /\ proposal' = <<>>
                       /\ placed' = <<>>
                       /\ UNCHANGED <<last_timestamp, orders>>

\* did_fill_order only logs the fill; the filled order leaves the book
Tmm_did_fill_order ==
  /\ script = TMM
  /\ fills < MaxFills
  /\ \E i \in 1..Len(orders) :
       /\ event' = FillEvent(orders[i], orders[i].price, orders[i].quantity)
       /\ orders' = RemoveAt(orders, i)
  /\ fills' = fills + 1
  /\ NothingRead
  /\ UNCHANGED <<script, current_timestamp, trades>>
  /\ UNCHANGED smart_vars
  /\ UNCHANGED atom_vars
  /\ UNCHANGED tmm_vars

InitHost ==
  /\ current_timestamp = 0
  /\ orders = <<>>
  /\ trades = <<>>
  /\ fills = 0
  /\ mid_price = 0
  /\ quote_balance = 0
  /\ balance = NoBalance
  /\ proposal = <<>>
  /\ placed = <<>>
  /\ calculated_cost_basis = None
  /\ event = NoEvent

InitScripts ==
  /\ positions = <<>>
  /\ create_timestamp = 0
  /\ ready = FALSE
  /\ dca_positions = <<>>
  /\ total_position_value = <<0, 1>>
  /\ total_position_amount = 0
  /\ active_buy_orders = <<>>
  /\ active_sell_orders = <<>>
  /\ price_data = <<>>
  /\ ready_to_trade = FALSE
  /\ last_timestamp = 0

Init ==
  /\ script \in {SMART, ATOM, TMM}
  /\ InitScripts
  /\ InitHost

Next ==
  \/ Smart_on_tick
  \/ Smart_did_fill_order
  \/ Host_cancelled
  \/ Atom_on_start
  \/ Atom_on_tick
  \/ Atom_did_fill_order
  \/ Tmm_on_tick
  \/ Tmm_did_fill_order

Spec == Init /\ [][Next]_vars

\* ------------------------------------- harness for the pure calculations
\* calculate_cost_basis and create_proposal applied to every position list,
\* trade history, price and balance within the bounds
RECURSIVE SeqsUpTo(_, _)
SeqsUpTo(S, n) ==
  IF n = 0 THEN {<<>>}
  ELSE LET shorter == SeqsUpTo(S, n - 1)
       IN shorter \cup {Append(q, x) : q \in shorter, x \in S}

\* amounts of one entry: partial units, one unit, and two whole units
PositionAmounts == (1..MaxAmount) \cup {2 * order_amount}

\* self.positions is a deque(maxlen = max_positions)
PositionLists == SeqsUpTo(Prices \X PositionAmounts, Min(MaxLen, max_positions))

\* the trade history: buys at every price and amount, and one sell (of a
\* sell only the trade type is read)
TradeLists ==
  SeqsUpTo([trade_type : {BUY}, price : {<<p, 1>> : p \in Prices},
            amount : 1..MaxAmount]
             \cup {[trade_type |-> SELL, price |-> <<100, 1>>, amount |-> order_amount]},
           MaxHistory)

\* the positions (10, 5), (12, 5) and (10, 15), (12, 15), in lots of 5
ExamplePositionLists == {<<<<10, 1>>, <<12, 1>>>>, <<<<10, 3>>, <<12, 3>>>>}

InitCB ==
  /\ script = SMART
  /\ positions \in PositionLists \cup ExamplePositionLists
  /\ trades \in TradeLists
  /\ create_timestamp = 0
  /\ ready = FALSE
  /\ dca_positions = <<>>
  /\ total_position_value = <<0, 1>>
  /\ total_position_amount = 0
  /\ active_buy_orders = <<>>
  /\ active_sell_orders = <<>>
  /\ price_data = <<>>
  /\ ready_to_trade = FALSE
  /\ last_timestamp = 0
  /\ current_timestamp = 0
  /\ orders = <<>>
  /\ fills = 0
  /\ mid_price = 0
  /\ quote_balance = 0
  /\ balance = NoBalance
  /\ proposal = <<>>
  /\ placed = <<>>
  /\ calculated_cost_basis = None
  /\ event = NoEvent

Call_calculate_cost_basis ==
  /\ calculated_cost_basis' = calculate_cost_basis(positions, trades)
  /\ event' = [NoEvent EXCEPT !.op = "calculate_cost_basis"]
  /\ mid_price' = 0
  /\ quote_balance' = 0
  /\ balance' = NoBalance
  /\ proposal' = <<>>
  /\ UNCHANGED <<script, positions, create_timestamp, current_timestamp, orders,
                 trades, fills, placed>>
  /\ UNCHANGED atom_vars
  /\ UNCHANGED tmm_vars

Call_create_proposal ==
  /\ \E mid \in Prices, quote \in QuoteBalances :
       /\ mid_price' = mid
       /\ quote_balance' = quote
       /\ proposal' = create_proposal(positions, trades, mid, quote)
  /\ calculated_cost_basis' = calculate_cost_basis(positions, trades)
  /\ event' = [NoEvent EXCEPT !.op = "create_proposal"]
  /\ balance' = NoBalance
  /\ UNCHANGED <<script, positions, create_timestamp, current_timestamp, orders,
                 trades, fills, placed>>
  /\ UNCHANGED atom_vars
  /\ UNCHANGED tmm_vars

NextCB ==
  \/ Call_calculate_cost_basis
  \/ Call_create_proposal

SpecCB == InitCB /\ [][NextCB]_vars

\* ------------------------------ harness: update_positions_from_balance
\* the balance rows of the harness: those of BalanceRows and two available
\* balances that are no whole number of units
HarnessBalanceRows ==
  BalanceRows \cup {[has_row |-> TRUE, available |-> b] :
                      b \in {order_amount + 1, 2 * order_amount + 1}}

\* the mid prices of the harness: the market prices and one that no position
\* of PositionLists was bought at
HarnessMidPrices == Prices \cup {103}

\* get_active_orders(): nothing, one sell order, or one buy order
HarnessActiveOrders ==
  {<<>>,
   <<OrderOf(SellCandidate(order_amount, <<101, 1>>), 1)>>,
   <<OrderOf(BuyCandidate(order_amount, <<100, 1>>), 1)>>}

InitUP ==
  /\ script = SMART
  /\ positions \in PositionLists
  /\ orders \in HarnessActiveOrders
  /\ trades = <<>>
  /\ create_timestamp = 0
  /\ ready = FALSE
  /\ dca_positions = <<>>
  /\ total_position_value = <<0, 1>>
  /\ total_position_amount = 0
  /\ active_buy_orders = <<>>
  /\ active_sell_orders = <<>>
  /\ price_data = <<>>
  /\ ready_to_trade = FALSE
  /\ last_timestamp = 0
  /\ current_timestamp = 0
  /\ fills = 0
  /\ mid_price = 0
  /\ quote_balance = 0
  /\ balance = NoBalance
  /\ proposal = <<>>
  /\ placed = <<>>
  /\ calculated_cost_basis = None
  /\ event = NoEvent

Call_update_positions_from_balance ==
  /\ \E bal \in HarnessBalanceRows, mid \in HarnessMidPrices :
       /\ balance' = bal
       /\ mid_price' = mid
       /\ positions' = update_positions_from_balance(positions, orders, bal, mid)
  /\ event' = [NoEvent EXCEPT !.op = "update_positions_from_balance"]
  /\ quote_balance' = 0
  /\ proposal' = <<>>
  /\ calculated_cost_basis' = None
  /\ UNCHANGED <<script, create_timestamp, current_timestamp, orders, trades,
                 fills, placed>>
  /\ UNCHANGED atom_vars
  /\ UNCHANGED tmm_vars

NextUP == Call_update_positions_from_balance

SpecUP == InitUP /\ [][NextUP]_vars

\* ------------------------------------------------------------- properties
IsTick == event.op = "on_tick"

IsFill == event.op = "did_fill_order"

IsBuyFill == IsFill /\ event.trade_type = BUY

IsSellFill == IsFill /\ event.trade_type = SELL

\* a step that is SmartScalpingDCA.on_tick
SmartTickStep == script = SMART /\ current_timestamp' = current_timestamp + 1

\* a step that is did_fill_order
FillStep == fills' = fills + 1

HasBuy(cands) == \E i \in 1..Len(cands) : cands[i].order_side = BUY

\* a <= b for fractions a, b >= 0, compared by their continued fractions so
\* that no product of large numerators is formed
RECURSIVE FracNotAbove(_, _)
FracNotAbove(a, b) ==
  LET qa == a[1] \div a[2]
      qb == b[1] \div b[2]
      ra == a[1] % a[2]
      rb == b[1] % b[2]
  IN IF qa # qb THEN qa < qb
     ELSE IF ra = 0 THEN TRUE
     ELSE IF rb = 0 THEN FALSE
     ELSE FracNotAbove(<<b[2], rb>>, <<a[2], ra>>)

WeightedAverage(pos) == Frac(SumValue(pos), SumAmount(pos))

AllWholeUnits(pos) == \A i \in 1..Len(pos) : pos[i][2] % order_amount = 0

\* C1, as claimed: for every non-empty list of positions the cost basis
\* calculate_cost_basis returns is sum(price * amount) / sum(amount).
C1_cost_basis_is_weighted_average ==
  (event.op = "calculate_cost_basis" /\ positions # <<>>)
    => calculated_cost_basis = WeightedAverage(positions)

\* C1, amended: for every non-empty list of positions whose amounts are all
\* whole multiples of order_amount, the cost basis is
\* sum(price * amount) / sum(amount).
C1_whole_unit_cost_basis_is_weighted_average ==
  (event.op = "calculate_cost_basis" /\ positions # <<>> /\ AllWholeUnits(positions))
    => calculated_cost_basis = WeightedAverage(positions)

C1_witness ==
  /\ event.op = "calculate_cost_basis"
  /\ Len(positions) >= 2
  /\ AllWholeUnits(positions)
  /\ positions[1][1] # positions[2][1]
  /\ calculated_cost_basis = WeightedAverage(positions)

C3_positions_bounded ==
  /\ Len(positions) <= max_positions
  /\ Len(dca_positions) <= atom_max_positions

\* a buy fill arrived with max_positions entries already tracked: the
\* partial fills of one DCA order, order_amount in all, are what is tracked,
\* and the position the pending sell was placed for has been pushed out
C3_witness ==
  /\ script = SMART
  /\ IsBuyFill
  /\ Len(positions) = max_positions
  /\ SumAmount(positions) = order_amount
  /\ Len(trades) = max_positions
  /\ \A i \in 1..Len(trades) : trades[i].trade_type = BUY
  /\ \E i \in 1..Len(orders) : ~orders[i].is_buy /\ orders[i].quantity = order_amount

\* C4, as claimed: in no tick does SmartScalpingDCA propose or place a buy
\* order while a sell order is active.
C4_no_buy_while_sell_active ==
  [][(SmartTickStep /\ has_active_sell_orders(orders))
       => (~HasBuy(proposal') /\ ~HasBuy(placed'))]_vars

\* C4, amended: in a tick with a sell order active SmartScalpingDCA creates
\* no proposal and places no sell; it places at most one buy, the DCA market
\* buy of order_amount at the mid price, and only when positions is
\* non-empty, the cost basis is defined, the mid price lies at least
\* position_distance below the cost basis and the available quote balance
\* covers order_amount * mid price.
C4_only_dca_buy_while_sell_active ==
  [][(SmartTickStep /\ has_active_sell_orders(orders))
       => /\ proposal' = <<>>
          /\ Len(placed') <= 1
          /\ placed' # <<>> =>
               LET basis == calculate_cost_basis(positions, trades)
               IN /\ placed'[1] = [order_side |-> BUY, order_type |-> "MARKET",
                                   amount |-> order_amount,
                                   price |-> <<mid_price', 1>>]
                  /\ positions # <<>>
                  /\ basis # None
                  /\ mid_price' * basis[2] * RateScale
                       <= basis[1] * (RateScale - position_distance)
                  /\ quote_balance' >= order_amount * mid_price']_vars

C4_witness ==
  /\ script = SMART
  /\ IsTick
  /\ has_active_sell_orders(orders)
  /\ Len(placed) = 1
  /\ placed[1].order_side = BUY
  /\ \E i \in 1..Len(orders) : orders[i].is_buy /\ ~orders[i].cancel_requested

\* C5, as claimed: whenever positions is non-empty create_proposal returns
\* exactly one order candidate, and it is a sell.
C5_one_sell_when_positions ==
  (event.op = "create_proposal" /\ positions # <<>>)
    => (Len(proposal) = 1 /\ proposal[1].order_side = SELL)

\* C5, amended: whenever positions is non-empty create_proposal returns at
\* most one order candidate and never a buy; it returns exactly one sell
\* candidate when some position holds at least order_amount, and an empty
\* proposal when the positions total less than order_amount.
C5_sell_or_nothing_when_positions ==
  (event.op = "create_proposal" /\ positions # <<>>)
    => /\ Len(proposal) <= 1
       /\ ~HasBuy(proposal)
       /\ (\E i \in 1..Len(positions) : positions[i][2] >= order_amount)
            => Len(proposal) = 1
       /\ SumAmount(positions) < order_amount => proposal = <<>>

C5_witness ==
  /\ event.op = "create_proposal"
  /\ Len(positions) >= 2
  /\ \E i \in 1..Len(positions) : positions[i][2] < order_amount
  /\ Len(proposal) = 1
  /\ proposal[1].order_side = SELL
  /\ quote_balance >= order_amount * mid_price

\* C6: after SmartScalpingDCA.did_fill_order handled a sell fill, positions
\* is empty, whatever amount was filled and whatever positions held.
C6_sell_fill_clears_positions ==
  (script = SMART /\ IsSellFill) => positions = <<>>

\* a sell fill of part of the order, after a buy fill that arrived while the
\* sell was pending (the DCA buy it belongs to is still partly open)
C6_witness ==
  /\ script = SMART
  /\ IsSellFill
  /\ positions = <<>>
  /\ fills >= 2
  /\ trades[fills - 1].trade_type = BUY
  /\ \E i \in 1..Len(orders) : ~orders[i].is_buy /\ orders[i].quantity > 0
  /\ \E i \in 1..Len(orders) :
       orders[i].is_buy /\ ~orders[i].cancel_requested
         /\ orders[i].quantity < order_amount

\* C7, as claimed: after a sell fill whose amount is the whole tracked
\* total_position_amount, dca_positions is empty and total_position_amount
\* and total_position_value are 0, for every fill price.
C7_full_sell_fill_clears ==
  [][(script = ATOM /\ FillStep /\ event'.trade_type = SELL
        /\ total_position_amount > 0
        /\ event'.amount = total_position_amount)
       => (dca_positions' = <<>> /\ total_position_amount' = 0
             /\ total_position_value' = <<0, 1>>)]_vars

\* C8, as claimed: the entry a buy fill appends to positions is (fill price
\* adjusted for the fee, fill amount).
C8_entry_price_includes_fee ==
  (script = SMART /\ IsBuyFill)
    => /\ positions[Len(positions)][2] = event.amount
       /\ <<positions[Len(positions)][1], 1>>
            = FracTimesRate(event.price, event.trade_fee)

\* C8, amended: the entry a buy fill appends to positions is (fill price,
\* fill amount): the recorded entry price is the raw fill price, also when
\* the fee rate is non-zero (the fees are added to the sell margin instead).
C8_entry_price_is_fill_price ==
  (script = SMART /\ IsBuyFill)
    => positions[Len(positions)] = <<event.price[1], event.amount>>
         /\ event.price[2] = 1

C8_witness ==
  /\ script = SMART
  /\ IsBuyFill
  /\ event.trade_fee > 0
  /\ positions[Len(positions)] = <<event.price[1], event.amount>>
  /\ FracLT(event.price, FracTimesRate(event.price, event.trade_fee))

\* C9: a buy fill with max_positions entries tracked evicts the oldest entry,
\* keeps the others in order, makes the new entry the newest and leaves the
\* length at max_positions; below capacity it only appends.
C9_buy_fill_evicts_oldest ==
  [][(script = SMART /\ FillStep /\ event'.trade_type = BUY)
       => LET entry == <<event'.price[1], event'.amount>>
          IN IF Len(positions) = max_positions
             THEN /\ Len(positions') = max_positions
                  /\ \A i \in 1..(max_positions - 1) : positions'[i] = positions[i + 1]
                  /\ positions'[max_positions] = entry
             ELSE positions' = Append(positions, entry)]_vars

\* the tracked entries are exactly the last max_positions buy fills, in the
\* order they arrived, with different prices among them; the entry the pending
\* sell was priced from, at another price than the oldest one left, is gone
C9_witness ==
  /\ script = SMART
  /\ IsBuyFill
  /\ fills = max_positions
  /\ Len(positions) = max_positions
  /\ \A i \in 1..max_positions :
       trades[i].trade_type = BUY
         /\ positions[i] = <<trades[i].price[1], trades[i].amount>>
  /\ positions[1][1] # positions[max_positions][1]
  /\ \E i \in 1..Len(orders), p \in Prices :
       /\ ~orders[i].is_buy
       /\ orders[i].price = min_profitable_price(<<p, 1>>)
       /\ p # positions[1][1]

\* C10: calculate_cost_basis returns none whenever positions is empty, so a
\* defined cost basis implies at least one tracked position.
C10_no_cost_basis_without_positions ==
  (event.op \in {"calculate_cost_basis", "create_proposal"})
    => (calculated_cost_basis # None => positions # <<>>)

\* no positions, but a trade history holding a whole order_amount of buys
C10_witness ==
  /\ event.op = "calculate_cost_basis"
  /\ positions = <<>>
  /\ \E i \in 1..Len(trades) :
       trades[i].trade_type = BUY /\ trades[i].amount >= order_amount
  /\ calculated_cost_basis = None

\* the whole-unit portions of the buy trades, newest first, until `needed`
\* units are gathered: <<amount, value>>
RECURSIVE WholeUnitBuys(_, _, _)
WholeUnitBuys(tr, i, needed) ==
  IF i = 0 \/ needed <= 0 THEN <<0, <<0, 1>>>>
  ELSE LET units == IF tr[i].trade_type = BUY THEN tr[i].amount \div order_amount ELSE 0
           rest == WholeUnitBuys(tr, i - 1, needed - units)
       IN <<units * order_amount + rest[1],
            FracAdd(Frac(units * order_amount * tr[i].price[1], tr[i].price[2]), rest[2])>>

RecentBuysAverage(tr, needed) ==
  LET got == WholeUnitBuys(tr, Len(tr), needed)
  IN IF got[1] = 0 THEN None ELSE Frac(got[2][1], got[2][2] * got[1])

RECURSIVE BuyTotal(_)
BuyTotal(tr) ==
  IF tr = <<>> THEN 0
  ELSE (IF tr[1].trade_type = BUY THEN tr[1].amount ELSE 0) + BuyTotal(Tail(tr))

\* positions is non-empty and totals a whole unit, but no entry holds one
OnlyPartialPositions(pos) ==
  /\ pos # <<>>
  /\ SumAmount(pos) >= order_amount
  /\ \A i \in 1..Len(pos) : pos[i][2] < order_amount

RECURSIVE UnitsTaken(_, _)
RECURSIVE TakenNewerThan(_, _)
UnitsTaken(pos, i) ==
  Min(pos[i][2] \div order_amount,
      SumAmount(pos) \div order_amount - TakenNewerThan(pos, i))

TakenNewerThan(pos, i) ==
  IF i >= Len(pos) THEN 0
  ELSE UnitsTaken(pos, i + 1) + TakenNewerThan(pos, i + 1)

\* the entries cut down to what is taken from them
TakenLots(pos) ==
  [i \in 1..Len(pos) |-> <<pos[i][1], UnitsTaken(pos, i) * order_amount>>]

\* C12: calculate_cost_basis takes from each position, newest first,
\* min(floor(amount / order_amount), units still needed) whole units, the
\* units needed starting at floor(sum of amounts / order_amount); when a unit
\* is taken it returns sum(taken * price) / sum(taken), and it returns none
\* when the amounts total less than one order_amount.
C12_cost_basis_from_whole_units ==
  (event.op = "calculate_cost_basis" /\ positions # <<>>)
    => /\ SumAmount(positions) < order_amount => calculated_cost_basis = None
       /\ SumAmount(TakenLots(positions)) > 0 =>
            calculated_cost_basis
              = Frac(SumValue(TakenLots(positions)), SumAmount(TakenLots(positions)))

\* the older entry gives two units and the newer one, at another price, holds
\* less than a unit: the result is not the average over the full amounts
C12_witness ==
  /\ event.op = "calculate_cost_basis"
  /\ \E i, j \in 1..Len(positions) :
       /\ i < j
       /\ positions[i][2] = 2 * order_amount
       /\ positions[j][2] < order_amount
       /\ positions[i][1] # positions[j][1]
  /\ calculated_cost_basis # None
  /\ calculated_cost_basis # WeightedAverage(positions)
  /\ calculated_cost_basis
       = Frac(SumValue(TakenLots(positions)), SumAmount(TakenLots(positions)))

HasSell(cands) == \E i \in 1..Len(cands) : cands[i].order_side = SELL

\* cost_basis * 1.0176: 1 + 0.005 + 0.0006 + 0.0120
TimesMarginAndFees(cost_basis) == Frac(cost_basis[1] * 10176, cost_basis[2] * 10000)

\* C13, as claimed: a sell order of create_proposal is priced at exactly
\* cost_basis * (1 + min_profitability + maker_fee + taker_fee); for the
\* positions [(10,5),(12,5)] (order_amount being the default 15) the cost
\* basis is 11 and the sell price 11.1936.
C13_example_sell_price ==
  event.op = "create_proposal"
    => /\ HasSell(proposal) =>
            proposal[1].price = TimesMarginAndFees(calculated_cost_basis)
       /\ positions = <<<<10, 1>>, <<12, 1>>>> =>
            /\ calculated_cost_basis = <<11, 1>>
            /\ HasSell(proposal)
            /\ proposal[1].price = <<111936, 10000>>

\* C13, amended: a sell order of create_proposal is priced at exactly
\* cost_basis * (1 + min_profitability + maker_fee + taker_fee), the fees
\* being 0.0006 and 0.0120; for the positions [(10,15),(12,15)] (whole
\* multiples of order_amount) and min_profitability 0.005 the cost basis is
\* 11 and the sell price 11 * 1.0176 = 11.1936, while for [(10,5),(12,5)]
\* the positions total less than one order_amount, the cost basis is none
\* and no sell order is emitted.
C13_sell_price_of_whole_units ==
  event.op = "create_proposal"
    => /\ HasSell(proposal) =>
            /\ calculated_cost_basis # None
            /\ proposal[1].price = TimesMarginAndFees(calculated_cost_basis)
       /\ positions = <<<<10, 3>>, <<12, 3>>>> =>
            /\ calculated_cost_basis = <<11, 1>>
            /\ HasSell(proposal)
            /\ proposal[1].price[1] * 10000 = 111936 * proposal[1].price[2]
       /\ positions = <<<<10, 1>>, <<12, 1>>>> =>
            /\ calculated_cost_basis = None
            /\ proposal = <<>>

C13_witness ==
  /\ event.op = "create_proposal"
  /\ positions = <<<<10, 3>>, <<12, 3>>>>
  /\ Len(proposal) = 1
  /\ proposal[1].order_side = SELL
  /\ proposal[1].amount = 2 * order_amount
  /\ proposal[1].price = <<6996, 625>>

\* a step that is AtomUsdScalpDCAStrategy.on_tick
AtomTickStep == script = ATOM /\ event' = TickEvent

\* C14, as claimed: a buy order is proposed or placed only when the number of
\* tracked positions is below max_positions, in SmartScalpingDCA (initial and
\* DCA buys) and in AtomUsdScalpDCAStrategy.
C14_buy_only_below_capacity ==
  [][/\ SmartTickStep =>
          ((HasBuy(proposal') \/ HasBuy(placed')) => Len(positions') < max_positions)
     /\ AtomTickStep =>
          (HasBuy(placed') => Len(dca_positions) < atom_max_positions)]_vars

Keys(dca) == {dca[i][1] : i \in 1..Len(dca)}

\* entry * (1 - dca_step_size)
Stepped(entry) == Frac(entry * (RateScale - dca_step_size), RateScale)

SmartBuysAtMid ==
  SmartTickStep =>
    \A c \in {proposal'[i] : i \in 1..Len(proposal')}
               \cup (IF has_active_sell_orders(orders)
                     THEN {placed'[i] : i \in 1..Len(placed')} ELSE {}) :
      c.order_side = BUY =>
        (c.price = <<mid_price', 1>> /\ c.amount = order_amount)

\* C15, as claimed: every proposed buy is priced at the current price or at
\* existing entry * (1 - dca_step), below the entry it is stepped from, and
\* is sized at the configured order amount (AtomUsdScalpDCAStrategy has no
\* configured amount; of its buys the price is stated).
C15_buy_at_current_or_stepped_price ==
  [][/\ SmartBuysAtMid
     /\ AtomTickStep =>
          \A i \in 1..Len(placed') :
            placed'[i].order_side = BUY =>
              \/ placed'[i].price = <<mid_price', 1>>
              \/ \E k \in Keys(dca_positions) :
                   placed'[i].price = Stepped(k) /\ FracLT(placed'[i].price, <<k, 1>>)]_vars

\* C15, amended: a buy of SmartScalpingDCA (initial or DCA) is priced at the
\* mid price and sized order_amount.  A buy of AtomUsdScalpDCAStrategy is
\* priced at 0.999 * mid price or, when the mid price is below the highest
\* tracked entry * (1 - dca_step_size), at that stepped price, which lies
\* below the entry; its size is max_order_amount_usd / buy price, a fixed quote
\* amount.
C15_buy_price_and_size ==
  [][/\ SmartBuysAtMid
     /\ AtomTickStep =>
          \A i \in 1..Len(placed') :
            placed'[i].order_side = BUY =>
              LET c == placed'[i]
                  stepping == \E k \in Keys(dca_positions) :
                                mid_price' * RateScale < k * (RateScale - dca_step_size)
              IN /\ IF stepping
                    THEN \E k \in Keys(dca_positions) :
                           /\ \A h \in Keys(dca_positions) : h <= k
                           /\ c.price = Stepped(k)
                           /\ FracLT(c.price, <<k, 1>>)
                    ELSE c.price[1] * 1000 = mid_price' * 999 * c.price[2]
                 /\ c.amount * c.price[1] <= max_order_amount_usd * c.price[2]
                 /\ max_order_amount_usd * c.price[2] < (c.amount + 1) * c.price[1]]_vars

\* a buy at the stepped price, which is not 0.999 * mid price (it lies above
\* the mid price)
C15_witness ==
  /\ script = ATOM
  /\ IsTick
  /\ \E i \in 1..Len(placed), k \in Keys(dca_positions) :
       /\ placed[i].order_side = BUY
       /\ placed[i].price = Stepped(k)
       /\ FracLT(<<mid_price, 1>>, placed[i].price)
       /\ FracLT(placed[i].price, <<k, 1>>)

\* C16, as claimed: the candidates SmartScalpingDCA hands to buy / sell in a
\* tick are those adjust_proposal_to_budget returned for the proposal of that
\* tick.
C16_orders_pass_budget_adjustment ==
  [][SmartTickStep => placed' \in adjust_proposal_to_budget(proposal')]_vars

TmmTickStep == script = TMM /\ current_timestamp' = current_timestamp + 1

\* a tick of SmartScalpingDCA below create_timestamp touches nothing; a tick
\* at or after it re-arms the gate
SmartGate ==
  IF create_timestamp <= current_timestamp'
  THEN create_timestamp' = current_timestamp' + order_refresh_time
  ELSE /\ orders' = orders
       /\ positions' = positions
       /\ create_timestamp' = create_timestamp

\* the same for TechnicalMarketMaking once an evaluation has set
\* last_timestamp
TmmGate ==
  last_timestamp > 0 =>
    IF last_timestamp <= current_timestamp'
    THEN last_timestamp' = current_timestamp' + tmm_order_refresh_time
    ELSE /\ orders' = orders
         /\ last_timestamp' = last_timestamp

\* C17: after an evaluation at time t, a tick below t + order_refresh_time
\* places no order, cancels no order and changes no position state, and a
\* tick at or after it performs one evaluation and re-arms the gate, in
\* SmartScalpingDCA (create_timestamp) and in TechnicalMarketMaking
\* (last_timestamp).  Violated in TechnicalMarketMaking: an evaluation over a
\* flat price window cancels the orders, raises and leaves the gate as it was.
C17_refresh_gate ==
  [][(SmartTickStep => SmartGate) /\ (TmmTickStep => TmmGate)]_vars

\* the SmartScalpingDCA half of C17 alone
C17_smart_refresh_gate == [][SmartTickStep => SmartGate]_vars


\* a tick of SmartScalpingDCA that reaches create_proposal
SmartProposalStep ==
  /\ SmartTickStep
  /\ create_timestamp <= current_timestamp'
  /\ ~has_active_sell_orders(orders)

\* C18: absent preconditions are soft no-ops.  With no positions and a quote
\* balance below order_amount * mid price create_proposal returns an empty
\* proposal and the tick places nothing; when no cost basis is computable the
\* proposal holds no sell order; AtomUsdScalpDCAStrategy places no buy order
\* on a tick whose available USD is below max_order_amount_usd.
C18_soft_no_ops ==
  [][/\ SmartProposalStep =>
          /\ (positions' = <<>> /\ quote_balance' < order_amount * mid_price') =>
               (proposal' = <<>> /\ placed' = <<>>
                  /\ orders' = CancelBuys(orders))
          /\ calculated_cost_basis' = None => ~HasSell(proposal')
     /\ (AtomTickStep /\ quote_balance' < max_order_amount_usd) =>
          ~HasBuy(placed')]_vars

\* a SmartScalpingDCA evaluation with no positions and no quote balance, the
\* trade history holding a buy, that proposed and placed nothing
C18_witness ==
  /\ script = SMART
  /\ IsTick
  /\ mid_price > 0
  /\ positions = <<>>
  /\ quote_balance < order_amount * mid_price
  /\ \E i \in 1..Len(trades) : trades[i].trade_type = BUY
  /\ proposal = <<>>
  /\ placed = <<>>


\* C19: the amount of the sell order create_proposal produces is
\* floor(T / order_amount) * order_amount for T the sum of the position
\* amounts: positive, a whole multiple of order_amount, at most T.
C19_sell_amount_is_whole_units ==
  event.op = "create_proposal" =>
    \A i \in 1..Len(proposal) :
      proposal[i].order_side = SELL =>
        /\ proposal[i].amount = (SumAmount(positions) \div order_amount) * order_amount
        /\ proposal[i].amount > 0
        /\ proposal[i].amount % order_amount = 0
        /\ proposal[i].amount <= SumAmount(positions)

\* a sell order proposed for positions whose total is no whole number of units
C19_witness ==
  /\ event.op = "create_proposal"
  /\ HasSell(proposal)
  /\ SumAmount(positions) % order_amount # 0
  /\ SumAmount(positions) > 2 * order_amount


\* the parts of C20 that do not involve the key
AtomTotalsMatch ==
  /\ Len(dca_positions) <= 1
  /\ Len(dca_positions) = 1 =>
       /\ dca_positions[1][2] = total_position_amount
       /\ total_position_amount > 0
  /\ Len(dca_positions) = 0 =>
       /\ total_position_amount = 0
       /\ total_position_value[1] = 0

\* key * total_position_amount = total_position_value
KeyIsExactAverage ==
  dca_positions[1][1] * total_position_amount * total_position_value[2]
    = total_position_value[1]

SmartDcaCheckStep ==
  /\ SmartTickStep
  /\ create_timestamp <= current_timestamp'
  /\ has_active_sell_orders(orders)

\* the orders of `after` that `before` did not hold
NewOrders(before, after) ==
  {after[i] : i \in 1..Len(after)} \ {before[i] : i \in 1..Len(before)}

\* C21: a due tick that finds a sell order active lets the sell orders sit:
\* positions is not modified, no order is cancelled (every order stays in the
\* book as it was), no sell order is placed, at most one buy order is placed,
\* and create_timestamp becomes current_timestamp + order_refresh_time.
C21_sell_orders_sit ==
  [][SmartDcaCheckStep =>
       /\ positions' = positions
       /\ Len(orders') >= Len(orders)
       /\ \A i \in 1..Len(orders) : orders'[i] = orders[i]
       /\ ~HasSell(placed')
       /\ Len(placed') <= 1
       /\ \A o \in NewOrders(orders, orders') : o.is_buy
       /\ Len(orders') <= Len(orders) + 1
       /\ create_timestamp' = current_timestamp' + order_refresh_time]_vars

\* after such a tick: the sell order still stands beside the DCA buy just
\* placed, and the gate is re-armed
C21_witness ==
  /\ script = SMART
  /\ IsTick
  /\ create_timestamp = current_timestamp + order_refresh_time
  /\ positions # <<>>
  /\ Len(placed) = 1
  /\ placed[1].order_side = BUY
  /\ Len(orders) = 2
  /\ ~orders[1].is_buy /\ ~orders[1].cancel_requested
  /\ orders[2].is_buy /\ orders[2].quantity = order_amount

\* C22: a due tick that finds no sell order active requests the cancellation
\* of every active buy order before it places the orders of the new proposal:
\* every buy order that was active is marked, the orders placed in the tick
\* come after them and are not marked; and no tick of SmartScalpingDCA
\* cancels a sell order.
C22_buys_cancelled_before_placing ==
  [][/\ SmartProposalStep =>
          /\ Len(orders') >= Len(orders)
          /\ \A i \in 1..Len(orders) :
               orders[i].is_buy =>
                 orders'[i] = [orders[i] EXCEPT !.cancel_requested = TRUE]
          /\ \A i \in (Len(orders) + 1)..Len(orders') :
               ~orders'[i].cancel_requested
     /\ SmartTickStep =>
          \A i \in 1..Len(orders) :
            ~orders[i].is_buy => (i <= Len(orders') /\ orders'[i] = orders[i])]_vars

\* after a due tick: the buy order that was open is marked for cancellation
\* and the order of the new proposal stands behind it, unmarked
C22_witness ==
  /\ script = SMART
  /\ IsTick
  /\ mid_price > 0
  /\ Len(orders) = 2
  /\ orders[1].is_buy /\ orders[1].cancel_requested
  /\ ~orders[2].cancel_requested
  /\ Len(placed) = 1
  /\ placed[1].amount = orders[2].quantity
  /\ placed[1].price = orders[2].price

\* (cost_basis - mid price) / cost_basis >= position_distance, for the cost
\* basis and the mid price of the tick just taken
PriceDroppedEnough ==
  /\ calculated_cost_basis' # None
  /\ FracNotAbove(<<position_distance, RateScale>>,
                  Frac(calculated_cost_basis'[1]
                         - mid_price' * calculated_cost_basis'[2],
                       calculated_cost_basis'[1]))

\* C23: create_dca_order returns a buy candidate exactly when positions is
\* non-empty, the cost basis is defined, the mid price lies at least
\* position_distance below the cost basis and the available quote balance
\* covers order_amount * mid price; the candidate is a market buy of
\* order_amount at the mid price; otherwise it returns none and nothing is
\* placed or changed.
C23_dca_order_iff_conditions ==
  [][SmartDcaCheckStep =>
       /\ calculated_cost_basis' = calculate_cost_basis(positions, trades)
       /\ positions' = positions
       /\ IF /\ positions # <<>>
             /\ calculated_cost_basis' # None
             /\ calculated_cost_basis'[1] > mid_price' * calculated_cost_basis'[2]
             /\ PriceDroppedEnough
             /\ quote_balance' >= order_amount * mid_price'
          THEN placed' = <<[order_side |-> BUY, order_type |-> "MARKET",
                            amount |-> order_amount,
                            price |-> <<mid_price', 1>>]>>
          ELSE placed' = <<>> /\ orders' = orders]_vars

\* a DCA buy placed at a mid price below the cost basis while the sell stands
C23_witness ==
  /\ script = SMART
  /\ IsTick
  /\ has_active_sell_orders(orders)
  /\ calculated_cost_basis # None
  /\ FracLT(<<mid_price, 1>>, calculated_cost_basis)
  /\ quote_balance >= order_amount * mid_price
  /\ placed = <<[order_side |-> BUY, order_type |-> "MARKET",
                 amount |-> order_amount, price |-> <<mid_price, 1>>]>>

\* a step that is AtomUsdScalpDCAStrategy.did_fill_order
AtomFillStep == script = ATOM /\ fills' = fills + 1

TrackedIds(tracked) == {tracked[i].client_order_id : i \in 1..Len(tracked)}

\* C24, as claimed: on a buy fill AtomUsdScalpDCAStrategy cancels the existing
\* sell orders and removes only the filled buy order from active_buy_orders:
\* every other open buy order stays in the book as it was and stays tracked.
\* Violated: cancel_all_orders asks every order to cancel and empties both
\* tracking lists.
C24_buy_fill_cancels_sells_only ==
  [][(AtomFillStep /\ event'.trade_type = BUY) =>
       /\ \A o \in {orders'[i] : i \in 1..Len(orders')} :
            ~o.is_buy => o.cancel_requested
       /\ \A i \in 1..Len(orders) :
            (orders[i].is_buy /\ orders[i].client_order_id # event'.order_id) =>
              \E j \in 1..Len(orders') : orders'[j] = orders[i]
       /\ TrackedIds(active_buy_orders') =
            TrackedIds(active_buy_orders) \ {event'.order_id}]_vars

\* floor(b / order_amount) * order_amount
WholeUnits(b) == (b \div order_amount) * order_amount

C26_active_sell_covers_whole_units ==
  script = SMART =>
    \A i \in 1..Len(orders) :
      ~orders[i].is_buy =>
        orders[i].quantity = (SumAmount(positions) \div order_amount) * order_amount

\* the state that refutes C26 without any partly filled order: after the fill
\* of a DCA buy two whole units are tracked while the pending sell, never
\* touched, still asks for one
DcaFillOutgrowsPendingSell ==
  /\ script = SMART
  /\ IsBuyFill
  /\ \A j \in 1..Len(trades) : trades[j].trade_type = BUY
  /\ SumAmount(positions) = 2 * order_amount
  /\ \E i \in 1..Len(orders) :
       ~orders[i].is_buy /\ orders[i].quantity = order_amount

SellOrders(active_orders) ==
  {i \in 1..Len(active_orders) : ~active_orders[i].is_buy}

SellCandidates(cands) == {i \in 1..Len(cands) : cands[i].order_side = SELL}

\* C27: SmartScalpingDCA never has more than one active sell order: a tick
\* places a sell order only when no sell order is active, it places at most
\* one, and after every step of ticks, fills and cancellations at most one
\* sell order is active.
C27_at_most_one_active_sell ==
  [][script = SMART =>
       /\ Cardinality(SellOrders(orders')) <= 1
       /\ (SmartTickStep /\ HasSell(placed')) =>
            /\ SellOrders(orders) = {}
            /\ Cardinality(SellCandidates(placed')) = 1]_vars

\* a due tick, after a fill, that found the one sell order active and placed
\* no further sell although the book had room for it
C27_witness ==
  /\ script = SMART
  /\ IsTick
  /\ mid_price > 0
  /\ fills >= 1
  /\ current_timestamp >= 1 + order_refresh_time
  /\ Cardinality(SellOrders(orders)) = 1
  /\ Len(orders) < MaxOrders
  /\ positions # <<>>
  /\ placed = <<>>

\* order o is a live sell order tracked in active_sell_orders and priced
\* within 0.01 of the target of the entry price
LiveSellFor(o, entry_price) ==
  /\ ~o.is_buy
  /\ ~o.cancel_requested
  /\ o.client_order_id \in TrackedIds(active_sell_orders)
  /\ existing_sell(<<o>>, target_sell_price(entry_price))

\* C28, as claimed: after an on_tick of AtomUsdScalpDCAStrategy that ran with
\* ready set and a mid price available, every entry of dca_positions has a
\* live tracked sell order priced within 0.01 of entry price *
\* (1 + min_profitability), also on ticks that cancelled a sell order lying
\* more than 2% from the mid price.  Violated: the cancelled order stays in
\* active_sell_orders and counts as the existing sell.
C28_every_entry_has_live_sell ==
  (script = ATOM /\ IsTick /\ ready /\ mid_price > 0) =>
    \A k \in 1..Len(dca_positions) :
      \E i \in 1..Len(orders) : LiveSellFor(orders[i], dca_positions[k][1])

\* the state that refutes C28 with room left in the book: the only sell
\* order was asked to cancel in this tick and no other was placed
SellCancelledNotReplaced ==
  /\ script = ATOM
  /\ IsTick
  /\ ready
  /\ mid_price > 0
  /\ Len(dca_positions) = 1
  /\ Len(orders) < MaxOrders
  /\ placed = <<>>
  /\ \E i \in 1..Len(orders) :
       /\ ~orders[i].is_buy
       /\ orders[i].cancel_requested
       /\ orders[i].client_order_id \in TrackedIds(active_sell_orders)
       /\ RelDiffGT(orders[i].price, <<mid_price, 1>>, 200)

\* a sell fill of AtomUsdScalpDCAStrategy within 2% of the one tracked entry
\* price, for less than the tracked amount
PartialCloseStep ==
  /\ AtomFillStep
  /\ event'.trade_type = SELL
  /\ Len(dca_positions) = 1
  /\ RelDiffLT(event'.price, <<dca_positions[1][1], 1>>, 200)
  /\ event'.amount < total_position_amount

\* the totals and the entry after a partial close
PartialCloseAccounting ==
  /\ total_position_amount' = total_position_amount - event'.amount
  /\ total_position_value' =
       FracAdd(total_position_value,
               <<0 - event'.amount * dca_positions[1][1], 1>>)
  /\ dca_positions' = <<<<dca_positions[1][1], total_position_amount'>>>>

NonMatchingSellFillStep ==
  /\ AtomFillStep
  /\ event'.trade_type = SELL
  /\ \A k \in 1..Len(dca_positions) :
       ~RelDiffLT(event'.price, <<dca_positions[k][1], 1>>, 200)

\* C30: a sell fill whose price differs from the tracked entry price by 2% or
\* more leaves dca_positions, total_position_amount and total_position_value
\* unchanged; only the filled order is dropped from active_sell_orders.
C30_non_matching_sell_fill_changes_nothing ==
  [][NonMatchingSellFillStep =>
       /\ dca_positions' = dca_positions
       /\ total_position_amount' = total_position_amount
       /\ total_position_value' = total_position_value
       /\ active_buy_orders' = active_buy_orders
       /\ active_sell_orders' =
            SelectSeq(active_sell_orders,
                      LAMBDA o : o.client_order_id # event'.order_id)]_vars

\* after the whole tracked amount was sold 2% or more above the entry price:
\* the entry and the totals still stand, the sell order is gone
C30_witness ==
  /\ script = ATOM
  /\ IsSellFill
  /\ Len(dca_positions) = 1
  /\ ~RelDiffLT(event.price, <<dca_positions[1][1], 1>>, 200)
  /\ event.amount = total_position_amount
  /\ dca_positions[1][2] = total_position_amount
  /\ event.order_id \notin TrackedIds(active_sell_orders)
  /\ orders = <<>>

\* C31: TechnicalMarketMaking.on_tick places and cancels no order until
\* price_data holds price_data_length samples; after a tick price_data holds
\* the samples it held and the new mid price, less the oldest sample when
\* that would be more than price_data_length; once full it stays full.
C31_price_window ==
  [][TmmTickStep =>
       /\ Len(price_data') < price_data_length =>
            (orders' = orders /\ placed' = <<>> /\ ~ready_to_trade')
       /\ Len(price_data') <= price_data_length
       /\ price_data' =
            IF Len(price_data) >= price_data_length
            THEN Tail(price_data) \o <<mid_price'>>
            ELSE price_data \o <<mid_price'>>
       /\ Len(price_data) = price_data_length =>
            Len(price_data') = price_data_length]_vars

\* a full window that has rolled: the tick dropped the oldest sample and
\* holds the new mid price last, at a price the kept one does not have
C31_witness ==
  /\ script = TMM
  /\ IsTick
  /\ ready_to_trade
  /\ current_timestamp > price_data_length
  /\ Len(price_data) = price_data_length
  /\ price_data[price_data_length] = mid_price
  /\ price_data[1] # mid_price

====
